---- MODULE Spec2Model ----
(***************************************************************************)
(* A model of pypi_data_downloader/cli.py: the changelog command           *)
(* (download_changelog), the catalog command (download_releases) and the   *)
(* per-package sync (process_package).                                     *)
(***************************************************************************)
EXTENDS Integers, Sequences, FiniteSets, TLC

(***************************************************************************)
(* Bounds of the model.                                                    *)
(***************************************************************************)
\* highest serial the remote change feed ever reaches
MaxSerial == 4
\* most events one changelog_since_serial response carries
MaxBatch == 2
\* largest --limit of a changelog run
MaxLimitCL == 3
\* largest --min-events of a changelog run
MaxMinEvents == 2
\* largest serial of a package in the index
MaxMarker == 2
\* most releases a package lists
MaxReleases == 2
\* revisions of the content a package's pages serve
MaxRev == 2

VARIABLES
    \* ---- changelog command ----
    remoteLatest,     \* the remote feed's last serial (changelog_last_serial)
    cursorFile,       \* <directory>/serials.json of the changelog directory: {} when absent, else {dict}
    artifacts,        \* the <start>-<end>.json.gz files of the directory, as <<start, end>>
    clPc,             \* "idle" | "loop" | "finalize"
    clOutcome,        \* how the last run ended: "none" | "ok" | "ClickException" | "ValueError"
    clSerials,        \* the in-memory serials dict of download_changelog
    events,           \* the events list (each event by its serial)
    clLimit,          \* --limit
    min_events,       \* --min-events: {} when unset, else {n}
    fetches,          \* calls of get_changelog_since made by this run
    clStart,          \* the directory and cursor as the run found them
    \* ---- catalog command ----
    server_packages_by_serial,  \* the listing of the index, names lowered (lines 107-110)
    pages,            \* the packages' pages on the index, as far as this run (and the
                      \* runs before it, while the index did not change) fetched them
    serialsFile,      \* <directory>/serials.json of the catalog directory
    files,            \* the version_file of each package that has one
    pc,               \* "idle" | "pool" | "unwind" | "ended"
    outcome,          \* how the run ended: "none" | "ok" | "RequestException"
    serials,          \* the in-memory serials dict of download_releases
    packages_to_process,
    tasks,            \* the futures of executor.map, in the order of the queue
    consumed,         \* results the main thread has taken from the iterator
    written,          \* the packages whose version_file this run wrote
    runStart,         \* the directory as the run found it, and how the run before ended
    \* ---- process_package on its own ----
    version_file,     \* one package's version_file: {} when there is none, else {record}
    lastSync,         \* the last sync of that package: {} before the first, else
                      \* {[before, detail, failAt, result]}
    \* ---- the calls to the index that can fail ----
    tries,            \* failed tries of the get_changelog_since call under way
    listTries,        \* calls of list_packages_with_serial made by the catalog run
    \* ---- serials.json while it is written ----
    disk,             \* the file: [exists, text], text the tokens written so far
    savePc,           \* "idle" | "writing" | "crashed" | "failed"
    saveNew,          \* the dict being written
    savePrev          \* the file as it was before the write

clVars == <<remoteLatest, cursorFile, artifacts, clPc, clOutcome, clSerials, events,
            clLimit, min_events, fetches, clStart>>

catVars == <<server_packages_by_serial, pages, serialsFile, files, pc, outcome, serials,
             packages_to_process, tasks, consumed, written, runStart>>

pkgVars == <<version_file, lastSync>>

saveVars == <<disk, savePc, saveNew, savePrev>>

vars == <<clVars, catVars, pkgVars, tries, listTries, saveVars>>

(***************************************************************************)
(* Helpers.                                                                *)
(***************************************************************************)
\* Python's max() over a non-empty collection of integers
MaxOf(S) == CHOOSE x \in S : \A y \in S : y <= x

\* Python's min() over a non-empty collection of integers
MinOf(S) == CHOOSE x \in S : \A y \in S : x <= y

Range(s) == {s[i] : i \in 1..Len(s)}

\* sequences over S without repetition, of length at most n
SeqsNoDup(S, n) ==
    {s \in UNION {[1..k -> S] : k \in 0..n} : \A i, j \in 1..Len(s) : i # j => s[i] # s[j]}

\* Python truthiness of the optional integer --min-events
Truthy(opt) == opt # {} /\ opt # {0}

OptVal(opt) == CHOOSE x \in opt : TRUE

(***************************************************************************)
(* download_changelog                                                      *)
(***************************************************************************)
\* client.changelog_since_serial(since): the events after `since`, each with its own
\* serial, in whatever order the server lists them; an empty list when it has none
ChangelogSince(since) == SeqsNoDup((since + 1)..remoteLatest, MaxBatch)

\* "Pick a new low point"
NewLowPoint_Last(changelog) == changelog[Len(changelog)]

NewLowPoint(changelog) == MaxOf(Range(changelog))

\* the changelog can gain events at any time
RemoteGain ==
    /\ remoteLatest < MaxSerial
    /\ remoteLatest' = remoteLatest + 1
    /\ UNCHANGED <<catVars, pkgVars, tries, listTries, saveVars, cursorFile, artifacts, clPc, clOutcome, clSerials, events, clLimit,
                   min_events, fetches, clStart>>

\* lines 31-48: read the last serial, load serials.json or start from 0
CL_Start ==
    /\ clPc = "idle"
    /\ \E l \in 0..MaxLimitCL, m \in {{}} \cup {{n} : n \in 0..MaxMinEvents} :
          /\ clLimit' = l
          /\ min_events' = m
    /\ LET loaded == IF cursorFile # {} THEN OptVal(cursorFile)
                     ELSE [lowest |-> 0, highest |-> 0]
       IN  /\ clSerials' = [loaded EXCEPT !.highest = remoteLatest]
           /\ clStart' = [cursorFile |-> cursorFile, artifacts |-> artifacts,
                          lowest |-> loaded.lowest]
    /\ events' = <<>>
    /\ fetches' = 0
    /\ clOutcome' = "none"
    /\ clPc' = "loop"
    /\ tries' = 0
    /\ UNCHANGED <<catVars, pkgVars, listTries, saveVars, remoteLatest, cursorFile, artifacts>>

\* lines 49-68: one iteration of the fetch loop
CL_Fetch ==
    /\ clPc = "loop"
    /\ clSerials.lowest < clSerials.highest
    /\ \E changelog \in ChangelogSince(clSerials.lowest) :
          /\ fetches' = fetches + 1
          /\ IF changelog = <<>>
             THEN /\ clPc' = "finalize"
                  /\ UNCHANGED <<events, clSerials>>
             ELSE /\ events' = events \o changelog
                  /\ clSerials' = [clSerials EXCEPT !.lowest = NewLowPoint(changelog)]
                  /\ clPc' = IF Len(events') >= clLimit THEN "finalize" ELSE "loop"
    /\ tries' = 0
    /\ UNCHANGED <<catVars, pkgVars, listTries, saveVars, remoteLatest, cursorFile, artifacts, clOutcome, clLimit, min_events,
                   clStart>>

\* line 49: the loop condition fails
CL_LoopExit ==
    /\ clPc = "loop"
    /\ ~(clSerials.lowest < clSerials.highest)
    /\ clPc' = "finalize"
    /\ UNCHANGED <<catVars, pkgVars, tries, listTries, saveVars, remoteLatest, cursorFile, artifacts, clOutcome, clSerials, events,
                   clLimit, min_events, fetches, clStart>>

\* lines 70-84, with the artifact and the cursor written before the min-events check
CL_Finalize_WriteFirst ==
    /\ clPc = "finalize"
    /\ clPc' = "idle"
    /\ IF events = <<>>
       THEN /\ clOutcome' = "ValueError"
            /\ UNCHANGED <<artifacts, cursorFile>>
       ELSE /\ artifacts' = artifacts \cup {<<MinOf(Range(events)), MaxOf(Range(events))>>}
            /\ cursorFile' = {clSerials}
            /\ clOutcome' = IF Truthy(min_events) /\ Len(events) < OptVal(min_events)
                            THEN "ClickException" ELSE "ok"
    /\ UNCHANGED <<catVars, pkgVars, tries, listTries, saveVars, remoteLatest, clSerials, events, clLimit, min_events, fetches, clStart>>

\* lines 70-84: the min-events check, the batch artifact, the cursor
CL_Finalize ==
    /\ clPc = "finalize"
    /\ clPc' = "idle"
    /\ IF Truthy(min_events) /\ Len(events) < OptVal(min_events)
       THEN \* line 71: raise click.ClickException
            /\ clOutcome' = "ClickException"
            /\ UNCHANGED <<artifacts, cursorFile>>
       ELSE IF events = <<>>
       THEN \* line 75: min() of an empty sequence raises ValueError
            /\ clOutcome' = "ValueError"
            /\ UNCHANGED <<artifacts, cursorFile>>
       ELSE /\ artifacts' = artifacts \cup {<<MinOf(Range(events)), MaxOf(Range(events))>>}
            /\ cursorFile' = {clSerials}
            /\ clOutcome' = "ok"
    /\ UNCHANGED <<catVars, pkgVars, tries, listTries, saveVars, remoteLatest, clSerials, events, clLimit, min_events, fetches, clStart>>

\* max_tries=5 of the backoff decorator of get_changelog_since (line 87)
MaxTries == 5

\* line 87: a try of get_changelog_since raises xmlrpc.client.ProtocolError and
\* backoff tries again
CL_TryFails ==
    /\ clPc = "loop"
    /\ clSerials.lowest < clSerials.highest
    /\ tries + 1 < MaxTries
    /\ tries' = tries + 1
    /\ UNCHANGED <<catVars, pkgVars, listTries, saveVars, remoteLatest, cursorFile, artifacts,
                   clPc, clOutcome, clSerials, events, clLimit, min_events, fetches, clStart>>

\* line 87 with a decorator that does not retry: any ProtocolError is raised on
CL_GiveUp_AtFirst ==
    /\ clPc = "loop"
    /\ clSerials.lowest < clSerials.highest
    /\ tries' = tries + 1
    /\ fetches' = fetches + 1
    /\ clOutcome' = "ProtocolError"
    /\ clPc' = "idle"
    /\ UNCHANGED <<catVars, pkgVars, listTries, saveVars, remoteLatest, cursorFile, artifacts,
                   clSerials, events, clLimit, min_events, clStart>>

\* line 87: the last try raises ProtocolError too; backoff gives up and the error
\* leaves get_changelog_since (line 50) and download_changelog
CL_GiveUp ==
    /\ clPc = "loop"
    /\ clSerials.lowest < clSerials.highest
    /\ tries + 1 = MaxTries
    /\ tries' = tries + 1
    /\ fetches' = fetches + 1
    /\ clOutcome' = "ProtocolError"
    /\ clPc' = "idle"
    /\ UNCHANGED <<catVars, pkgVars, listTries, saveVars, remoteLatest, cursorFile, artifacts,
                   clSerials, events, clLimit, min_events, clStart>>

\* what an index that does not keep to `since` can answer: a batch that is not empty
\* and holds a serial that does not exceed `since`
StaleChangelog(since) ==
    {c \in SeqsNoDup(1..remoteLatest, MaxBatch) : \E i \in 1..Len(c) : c[i] <= since}

\* lines 49-68 with such an answer and without the check of the limit (67-68)
CL_FetchStale_NoLimit ==
    /\ clPc = "loop"
    /\ clSerials.lowest < clSerials.highest
    /\ \E changelog \in StaleChangelog(clSerials.lowest) :
          /\ fetches' = fetches + 1
          /\ events' = events \o changelog
          /\ clSerials' = [clSerials EXCEPT !.lowest = NewLowPoint(changelog)]
          /\ clPc' = "loop"
    /\ tries' = 0
    /\ UNCHANGED <<catVars, pkgVars, listTries, saveVars, remoteLatest, cursorFile, artifacts,
                   clOutcome, clLimit, min_events, clStart>>

\* lines 49-68 with such an answer
CL_FetchStale ==
    /\ clPc = "loop"
    /\ clSerials.lowest < clSerials.highest
    /\ \E changelog \in StaleChangelog(clSerials.lowest) :
          /\ fetches' = fetches + 1
          /\ events' = events \o changelog
          /\ clSerials' = [clSerials EXCEPT !.lowest = NewLowPoint(changelog)]
          /\ clPc' = IF Len(events') >= clLimit THEN "finalize" ELSE "loop"
    /\ tries' = 0
    /\ UNCHANGED <<catVars, pkgVars, listTries, saveVars, remoteLatest, cursorFile, artifacts,
                   clOutcome, clLimit, min_events, clStart>>

InitChangelog ==
    /\ remoteLatest = 0
    /\ cursorFile = {}
    /\ artifacts = {}
    /\ clPc = "idle"
    /\ clOutcome = "none"
    /\ clSerials = [lowest |-> 0, highest |-> 0]
    /\ events = <<>>
    /\ clLimit = 0
    /\ min_events = {}
    /\ fetches = 0
    /\ clStart = [cursorFile |-> {}, artifacts |-> {}, lowest |-> 0]
    /\ tries = 0

NextChangelog ==
    \/ RemoteGain
    \/ CL_Start
    \/ CL_Fetch
    \/ CL_LoopExit
    \/ CL_Finalize

\* the changelog command against an index whose answers can fail
NextChangelogRetry ==
    \/ RemoteGain
    \/ CL_Start
    \/ CL_Fetch
    \/ CL_TryFails
    \/ CL_GiveUp
    \/ CL_LoopExit
    \/ CL_Finalize

\* the changelog command against an index that fails and that answers with old events
NextChangelogFaulty ==
    \/ RemoteGain
    \/ CL_Start
    \/ CL_Fetch
    \/ CL_TryFails
    \/ CL_GiveUp
    \/ CL_FetchStale
    \/ CL_LoopExit
    \/ CL_Finalize


(***************************************************************************)
(* download_releases: the work queue (lines 100-120).                      *)
(* A Python dict is a sequence of <<key, value>> pairs with distinct keys, *)
(* in insertion order; serials.json is a function from names to serials.   *)
(***************************************************************************)
\* package names as the index lists them, and str.lower() on them
RawNames == {"A", "a", "b"}

Lower(name) == IF name = "A" THEN "a" ELSE name

Names == {Lower(n) : n \in RawNames}

Markers == 1..MaxMarker

\* d[key] = value on a dict: a present key keeps its place and takes the value
DictSet(d, key, value) ==
    IF \E i \in 1..Len(d) : d[i][1] = key
    THEN [i \in 1..Len(d) |-> IF d[i][1] = key THEN <<key, value>> ELSE d[i]]
    ELSE Append(d, <<key, value>>)

\* lines 107-110: {key.lower(): value for key, value in listing}
RECURSIVE LowerDict(_)
LowerDict(packages) ==
    IF packages = <<>> THEN <<>>
    ELSE LET n == Len(packages)
         IN  DictSet(LowerDict(SubSeq(packages, 1, n - 1)),
                     Lower(packages[n][1]), packages[n][2])

\* a step of a sort that is not stable: x goes before its equals
InsertByKey_Unstable(done, x) ==
    LET before == {i \in 1..Len(done) : done[i][2] < x[2]}
        k == IF before = {} THEN 0 ELSE MaxOf(before)
    IN  SubSeq(done, 1, k) \o <<x>> \o SubSeq(done, k + 1, Len(done))

\* lines 113-115: one step of the stable sort by the serial: x goes after every
\* item that is not larger
InsertByKey(done, x) ==
    LET before == {i \in 1..Len(done) : done[i][2] <= x[2]}
        k == IF before = {} THEN 0 ELSE MaxOf(before)
    IN  SubSeq(done, 1, k) \o <<x>> \o SubSeq(done, k + 1, Len(done))

\* lines 113-115: sorted(items, key=operator.itemgetter(1)), which is stable
RECURSIVE SortedBySerial(_)
SortedBySerial(items) ==
    IF items = <<>> THEN <<>>
    ELSE LET n == Len(items)
         IN  InsertByKey(SortedBySerial(SubSeq(items, 1, n - 1)), items[n])

\* line 118 with the checkpoint looked up by the serial, serials.get(serial), which
\* finds nothing
NeedsRefresh_Always(stored, name, serial) == TRUE

\* serials.get(name) != serial
NeedsRefresh(stored, name, serial) ==
    name \notin DOMAIN stored \/ stored[name] # serial

\* lines 117-119
ChangedPackages(sorted_changes, stored) ==
    SelectSeq(sorted_changes, LAMBDA p : NeedsRefresh(stored, p[1], p[2]))

\* line 120: changed_packages[0:limit], a Python slice
SliceTo(seq, lim) ==
    LET stop == IF lim < 0
                THEN (IF Len(seq) + lim < 0 THEN 0 ELSE Len(seq) + lim)
                ELSE (IF lim > Len(seq) THEN Len(seq) ELSE lim)
    IN  SubSeq(seq, 1, stop)

\* lines 112-120: the packages this run processes
PackagesToProcess_Lowered(by_serial, stored, lim) ==
    SliceTo(ChangedPackages(SortedBySerial(by_serial), stored), lim)

\* what list_packages_with_serial can answer: a dict of names to serials
Listings == {l \in SeqsNoDup(RawNames \X Markers, Cardinality(RawNames)) :
                \A i, j \in 1..Len(l) : i # j => l[i][1] # l[j][1]}

\* what serials.json of the catalog directory can hold
CheckpointMaps == UNION {[D -> Markers] : D \in SUBSET Names}

(***************************************************************************)
(* process_package (lines 144-209).                                        *)
(* A remote package is [found, releases, missing, rev]: whether its /json  *)
(* page exists, the keys of its "releases" in upstream order, the versions *)
(* whose own /json page answers 404, and the revision of the content its   *)
(* pages serve. A release_info is [rev, description]: description tells    *)
(* whether info still has its "description" key. A stored record is a      *)
(* function from versions to release_infos.                                *)
(***************************************************************************)
Versions == {"1", "2", "3", ".."}

\* the versions the pool run is explored with
PoolVersions == {"1"}

NoPackage == [found |-> FALSE, releases |-> <<>>, missing |-> {}, rev |-> 1]

\* the states of a package's pages: its releases among `versions`, at most `longest`
\* of them, its content at one of `revs`
DetailsOf(versions, longest, revs) ==
    {NoPackage} \cup
    {d \in [found : {TRUE}, releases : SeqsNoDup(versions, longest),
             missing : SUBSET (versions \ {".."}), rev : revs] :
        d.missing \subseteq Range(d.releases)}

\* every state of a package's pages on the index
Details == DetailsOf(Versions, MaxReleases, 1..MaxRev)

\* failAt = k > 0: the k-th get_json call of a sync uses up its five tries on
\* RequestExceptions that are no 404 (lines 216-224), and the last one is raised
FailPoints == 0..(MaxReleases + 1)

Keys(d) == {d[i][1] : i \in 1..Len(d)}

Value(d, key) == d[CHOOSE i \in 1..Len(d) : d[i][1] = key][2]

\* lines 160-174 without the guard of lines 162-163: ".." is fetched like any version
RECURSIVE FetchReleases_NoGuard(_, _, _, _, _)
FetchReleases_NoGuard(detail, failAt, i, requested, releases) ==
    IF i > Len(detail.releases)
    THEN [status |-> "complete", releases |-> releases, requested |-> requested]
    ELSE LET version == detail.releases[i]
             asked == Append(requested, version)
         IN  IF Len(asked) + 1 = failAt
             THEN [status |-> "raise", releases |-> releases, requested |-> asked]
             ELSE IF version \in detail.missing
             THEN [status |-> "skip", releases |-> releases, requested |-> asked]
             ELSE FetchReleases_NoGuard(detail, failAt, i + 1, asked,
                      DictSet(releases, version,
                              [rev |-> detail.rev, description |-> TRUE]))

\* lines 160-174: the loop over package_releases from its i-th key on; `requested`
\* lists the versions whose page get_json was called for so far (the package's own
\* page was the sync's first call), `releases` is the dict built so far
RECURSIVE FetchReleases(_, _, _, _, _)
FetchReleases(detail, failAt, i, requested, releases) ==
    IF i > Len(detail.releases)
    THEN [status |-> "complete", releases |-> releases, requested |-> requested]
    ELSE LET version == detail.releases[i]
             asked == Append(requested, version)
         IN  IF version = ".."
             THEN FetchReleases(detail, failAt, i + 1, requested, releases)
             ELSE IF Len(asked) + 1 = failAt
             THEN [status |-> "raise", releases |-> releases, requested |-> asked]
             ELSE IF version \in detail.missing
             THEN [status |-> "skip", releases |-> releases, requested |-> asked]
             ELSE FetchReleases(detail, failAt, i + 1, asked,
                      DictSet(releases, version,
                              [rev |-> detail.rev, description |-> TRUE]))

\* lines 195-197, keeping the description of the first release instead of the last
StripDescriptions_KeepFirst(releases) ==
    [i \in 1..Len(releases) |->
        IF i # 1
        THEN <<releases[i][1], [releases[i][2] EXCEPT !.description = FALSE]>>
        ELSE releases[i]]

\* lines 195-197: pop "description" from every release but the last one iterated
StripDescriptions(releases) ==
    [i \in 1..Len(releases) |->
        IF Len(releases) - i # 0
        THEN <<releases[i][1], [releases[i][2] EXCEPT !.description = FALSE]>>
        ELSE releases[i]]

\* line 199 as a replacement of the record: the fetched releases alone
Merge_FetchedOnly(previous_data, releases) ==
    [v \in Keys(releases) |-> Value(releases, v)]

\* line 199: {**previous_data, **releases}
Merge(previous_data, releases) ==
    [v \in DOMAIN previous_data \cup Keys(releases) |->
        IF v \in Keys(releases) THEN Value(releases, v) ELSE previous_data[v]]

EmptyRecord == [v \in {} |-> 0]

\* lines 203-209 reached without the write of line 201
Returned_WriteLost(name, serial, skip, not_found, total_releases, modified, write) ==
    [raised |-> FALSE, name |-> name, serial |-> serial, skip |-> skip,
     stats |-> [not_found |-> not_found, releases |-> total_releases,
                modified |-> modified, new |-> (~not_found) /\ (~modified),
                skipped |-> skip],
     write |-> {}]

\* lines 203-209: what process_package returns; `write` is the record it wrote, if any
Returned(name, serial, skip, not_found, total_releases, modified, write) ==
    [raised |-> FALSE, name |-> name, serial |-> serial, skip |-> skip,
     stats |-> [not_found |-> not_found, releases |-> total_releases,
                modified |-> modified, new |-> (~not_found) /\ (~modified),
                skipped |-> skip],
     write |-> write]

\* the sync ends in the RequestException of get_json
Raised(name, serial) ==
    [raised |-> TRUE, name |-> name, serial |-> serial, skip |-> FALSE,
     stats |-> [not_found |-> FALSE, releases |-> 0, modified |-> FALSE, new |-> FALSE,
                skipped |-> FALSE],
     write |-> {}]

\* lines 157-201 with the releases fetched before a 404 written out all the same
ProcessFound_PartialWrite(file, name, serial, detail, failAt) ==
    LET fetched == FetchReleases(detail, failAt, 1, <<>>, <<>>)
        previous_data == IF file # {} THEN OptVal(file) ELSE EmptyRecord
    IN  IF fetched.status = "raise" THEN Raised(name, serial)
        ELSE Returned(name, serial, fetched.status = "skip", FALSE,
                      Len(detail.releases), file # {},
                      {Merge(previous_data, StripDescriptions(fetched.releases))})

\* lines 157-201: the package's own page was found
ProcessFound(file, name, serial, detail, failAt) ==
    LET total_releases == Len(detail.releases)
        fetched == FetchReleases(detail, failAt, 1, <<>>, <<>>)
    IN  IF fetched.status = "raise"
        THEN Raised(name, serial)
        ELSE IF fetched.status = "skip"
        THEN \* lines 170-172
             Returned(name, serial, TRUE, FALSE, total_releases, FALSE, {})
        ELSE \* lines 175-201
             LET modified == file # {}
                 previous_data == IF modified THEN OptVal(file) ELSE EmptyRecord
                 releases == Merge(previous_data, StripDescriptions(fetched.releases))
             IN  Returned(name, serial, FALSE, FALSE, total_releases, modified,
                          {releases})

\* lines 144-209 with a package that is not found marked as skipped
ProcessPackage_NotFoundSkips(file, name, serial, detail, failAt) ==
    IF failAt = 1 THEN Raised(name, serial)
    ELSE IF ~detail.found THEN Returned(name, serial, TRUE, TRUE, 0, FALSE, {})
    ELSE ProcessFound(file, name, serial, detail, failAt)

\* lines 144-209: `file` is the package's version_file before the sync ({} when
\* there is none), `detail` the package's pages on the index
ProcessPackage(file, name, serial, detail, failAt) ==
    IF failAt = 1
    THEN \* line 152 raises
         Raised(name, serial)
    ELSE IF ~detail.found
    THEN \* lines 155-156
         Returned(name, serial, FALSE, TRUE, 0, FALSE, {})
    ELSE ProcessFound(file, name, serial, detail, failAt)

(***************************************************************************)
(* download_releases (lines 96-141): the pool run.                         *)
(***************************************************************************)
\* lines 164-167: a package whose brand new release is listed on its page while the
\* release's own page still answers 404
BrandNewRelease == [found |-> TRUE, releases |-> <<"1", "2">>, missing |-> {"2"}, rev |-> 1]

\* the packages' pages the pool run is explored with
PoolDetails == DetailsOf(PoolVersions, Cardinality(PoolVersions), {1}) \cup {BrandNewRelease}

\* --concurrency, the workers of the ThreadPoolExecutor: one for each task a queue can
\* hold. A smaller pool only narrows which task may finish next, so its runs are
\* among the runs of this one.
Workers == Cardinality(Names)

\* --limit: a queue has at most one task for each name, so a larger limit changes
\* nothing
Limits == 0..Cardinality(Names)

Pending == [st |-> "pending", result |-> {}]

NoRun == [serialsFile |-> EmptyRecord, files |-> EmptyRecord, limit |-> 0,
          changed_packages |-> <<>>, rerun |-> FALSE,
          previous |-> [outcome |-> "none", truncated |-> FALSE]]

TasksIn(st) == {i \in 1..Len(tasks) : tasks[i].st = st}

\* the first k pending tasks, the ones the pool's workers take next
FirstPending(k) ==
    {i \in TasksIn("pending") : Cardinality({j \in TasksIn("pending") : j < i}) < k}

\* lines 100-128 once list_packages_with_serial has answered: load serials.json, build
\* the queue, submit the tasks
StartRun(by_serial, lim, again) ==
    /\ server_packages_by_serial' = by_serial
    /\ serials' = serialsFile
    /\ packages_to_process' = PackagesToProcess_Lowered(by_serial, serialsFile, lim)
    /\ tasks' = [i \in 1..Len(packages_to_process') |-> Pending]
    /\ consumed' = 0
    /\ written' = {}
    /\ outcome' = "none"
    /\ pc' = "pool"
    /\ runStart' = [serialsFile |-> serialsFile, files |-> files, limit |-> lim,
                    changed_packages |-> ChangedPackages(SortedBySerial(by_serial),
                                                         serialsFile),
                    rerun |-> again,
                    previous |-> [outcome |-> outcome,
                                  truncated |-> Len(packages_to_process)
                                                   < Len(runStart.changed_packages)]]
    /\ listTries' = 1
    /\ UNCHANGED <<clVars, pkgVars, tries, saveVars, serialsFile, files>>

\* a run of download_releases starts; the index answers with any listing
CatStart ==
    /\ pc = "idle"
    /\ pages' = EmptyRecord
    /\ \E l \in Listings, lim \in Limits : StartRun(LowerDict(l), lim, FALSE)

\* the same command is run again right after a run that wrote serials.json, and the
\* index has not changed since that run listed it
CatStartAgain ==
    /\ pc = "ended"
    /\ outcome = "ok"
    /\ ~runStart.rerun
    /\ UNCHANGED pages
    /\ StartRun(server_packages_by_serial, runStart.limit, TRUE)

\* the process is gone and with it what it held in memory; the index may change
\* before the next run
Exit ==
    /\ pc = "ended"
    /\ pc' = "idle"
    /\ outcome' = "none"
    /\ server_packages_by_serial' = <<>>
    /\ pages' = EmptyRecord
    /\ serials' = EmptyRecord
    /\ packages_to_process' = <<>>
    /\ tasks' = <<>>
    /\ consumed' = 0
    /\ written' = {}
    /\ runStart' = NoRun
    /\ listTries' = 0
    /\ UNCHANGED <<clVars, pkgVars, tries, saveVars, serialsFile, files>>

\* process_package(directory, name, serial) runs on a worker of the pool (line 127):
\* the workers take the tasks in the order of the queue
TaskRun(i) ==
    /\ \/ pc = "pool" /\ i \in FirstPending(Workers)
       \/ pc = "unwind" /\ tasks[i].st = "running"
    /\ LET name == packages_to_process[i][1]
           serial == packages_to_process[i][2]
           file == IF name \in DOMAIN files THEN {files[name]} ELSE {}
       IN  \E detail \in PoolDetails, failAt \in FailPoints :
              /\ name \in DOMAIN pages => detail = pages[name]
              /\ LET r == ProcessPackage(file, name, serial, detail, failAt)
                 IN  /\ tasks' = [tasks EXCEPT ![i] =
                                    [st |-> IF r.raised THEN "raised" ELSE "done",
                                     result |-> {r}]]
                     /\ files' = IF r.write = {} THEN files
                                 ELSE [n \in DOMAIN files \cup {name} |->
                                          IF n = name THEN OptVal(r.write) ELSE files[n]]
                     /\ written' = IF r.write = {} THEN written ELSE written \cup {name}
                     /\ pages' = IF failAt = 1 THEN pages
                                 ELSE [n \in DOMAIN pages \cup {name} |->
                                          IF n = name THEN detail ELSE pages[n]]
    /\ UNCHANGED <<clVars, pkgVars, tries, listTries, saveVars, server_packages_by_serial, serialsFile, pc, outcome, serials,
                   packages_to_process, consumed, runStart>>

\* lines 132-139 without the test of line 138: the serial is recorded for a skipped
\* package too
Consume_IgnoreSkip ==
    /\ pc = "pool"
    /\ consumed < Len(tasks)
    /\ tasks[consumed + 1].st = "done"
    /\ LET r == OptVal(tasks[consumed + 1].result)
       IN  serials' = [n \in DOMAIN serials \cup {Lower(r.name)} |->
                          IF n = Lower(r.name) THEN r.serial ELSE serials[n]]
    /\ consumed' = consumed + 1
    /\ UNCHANGED <<clVars, pkgVars, tries, listTries, saveVars, server_packages_by_serial, pages, serialsFile, files, pc,
                   outcome, packages_to_process, tasks, runStart, written>>

\* lines 132-139: the main thread takes the next result of executor.map, in the
\* order of the queue
Consume ==
    /\ pc = "pool"
    /\ consumed < Len(tasks)
    /\ tasks[consumed + 1].st = "done"
    /\ LET r == OptVal(tasks[consumed + 1].result)
       IN  serials' = IF ~r.skip
                      THEN [n \in DOMAIN serials \cup {Lower(r.name)} |->
                               IF n = Lower(r.name) THEN r.serial ELSE serials[n]]
                      ELSE serials
    /\ consumed' = consumed + 1
    /\ UNCHANGED <<clVars, pkgVars, tries, listTries, saveVars, server_packages_by_serial, pages, serialsFile, files, pc,
                   outcome, packages_to_process, tasks, runStart, written>>

\* line 132: the next result is the exception its task raised; executor.map cancels
\* the tasks no worker has taken yet
ConsumeRaise ==
    /\ pc = "pool"
    /\ consumed < Len(tasks)
    /\ tasks[consumed + 1].st = "raised"
    /\ \E k \in 0..Workers :
          tasks' = [i \in 1..Len(tasks) |->
                       IF tasks[i].st # "pending" THEN tasks[i]
                       ELSE IF i \in FirstPending(k)
                       THEN [tasks[i] EXCEPT !.st = "running"]
                       ELSE [tasks[i] EXCEPT !.st = "cancelled"]]
    /\ pc' = "unwind"
    /\ UNCHANGED <<clVars, pkgVars, tries, listTries, saveVars, server_packages_by_serial, pages, serialsFile, files, outcome,
                   serials, packages_to_process, consumed, runStart, written>>

\* line 125: the with block waits for the running tasks, then the exception leaves
\* download_releases
Unwind ==
    /\ pc = "unwind"
    /\ TasksIn("running") = {}
    /\ pc' = "ended"
    /\ outcome' = "RequestException"
    /\ UNCHANGED <<clVars, pkgVars, tries, listTries, saveVars, server_packages_by_serial, pages, serialsFile, files, serials,
                   packages_to_process, tasks, consumed, runStart, written>>

\* line 141 moved into the loop: serials.json is written while results are left
Persist_Early ==
    /\ pc = "pool"
    /\ serialsFile' = serials
    /\ pc' = "ended"
    /\ outcome' = "ok"
    /\ UNCHANGED <<clVars, pkgVars, tries, listTries, saveVars, server_packages_by_serial, pages, files, serials,
                   packages_to_process, tasks, consumed, runStart, written>>

\* line 141: every result is consumed; write serials.json
Persist ==
    /\ pc = "pool"
    /\ consumed = Len(tasks)
    /\ serialsFile' = serials
    /\ pc' = "ended"
    /\ outcome' = "ok"
    /\ UNCHANGED <<clVars, pkgVars, tries, listTries, saveVars, server_packages_by_serial, pages, files, serials,
                   packages_to_process, tasks, consumed, runStart, written>>

\* line 109: list_packages_with_serial raises xmlrpc.client.ProtocolError; the call
\* has no backoff decorator, so the error leaves download_releases at once
CatListFails ==
    /\ pc = "idle"
    /\ listTries' = listTries + 1
    /\ pc' = "ended"
    /\ outcome' = "ProtocolError"
    /\ runStart' = [NoRun EXCEPT !.serialsFile = serialsFile, !.files = files]
    /\ UNCHANGED <<clVars, pkgVars, tries, saveVars, server_packages_by_serial, pages, serialsFile,
                   files, serials, packages_to_process, tasks, consumed, written>>

\* the process is terminated while the pool runs (lines 125-139): what is in memory
\* is gone, the files written stay
Terminate ==
    /\ pc \in {"pool", "unwind"}
    /\ pc' = "ended"
    /\ outcome' = "killed"
    /\ UNCHANGED <<clVars, pkgVars, tries, listTries, saveVars, server_packages_by_serial, pages,
                   serialsFile, files, serials, packages_to_process, tasks, consumed, runStart,
                   written>>

InitCatalog ==
    /\ server_packages_by_serial = <<>>
    /\ pages = EmptyRecord
    /\ serialsFile = EmptyRecord
    /\ files = EmptyRecord
    /\ pc = "idle"
    /\ outcome = "none"
    /\ serials = EmptyRecord
    /\ packages_to_process = <<>>
    /\ tasks = <<>>
    /\ consumed = 0
    /\ written = {}
    /\ runStart = NoRun
    /\ listTries = 0

NextCatalog ==
    \/ CatStart
    \/ CatStartAgain
    \/ Exit
    \/ \E i \in 1..Len(tasks) : TaskRun(i)
    \/ Consume
    \/ ConsumeRaise
    \/ Unwind
    \/ Persist

\* the catalog command against an index whose listing can fail, in a process that can
\* be terminated
NextCatalogFaulty ==
    \/ CatStart
    \/ CatStartAgain
    \/ CatListFails
    \/ Exit
    \/ \E i \in 1..Len(tasks) : TaskRun(i)
    \/ Consume
    \/ ConsumeRaise
    \/ Unwind
    \/ Persist
    \/ Terminate

(***************************************************************************)
(* process_package on its own: one package synced again and again, against *)
(* every state of its pages on the index.                                  *)
(***************************************************************************)
\* process_package(directory, "a", 1), and the index in any state
SyncPackage ==
    /\ lastSync = {}
    /\ \E detail \in Details, failAt \in FailPoints :
        LET r == ProcessPackage(version_file, "a", 1, detail, failAt)
        IN  /\ version_file' = IF r.write = {} THEN version_file ELSE r.write
            /\ lastSync' = {[before |-> version_file, detail |-> detail,
                             failAt |-> failAt, result |-> r]}
            /\ UNCHANGED <<clVars, catVars, tries, listTries, saveVars>>

InitPackage ==
    /\ version_file = {}
    /\ lastSync = {}

\* the sync is over; the package is synced again on a later run
NextSync ==
    /\ lastSync # {}
    /\ lastSync' = {}
    /\ UNCHANGED <<clVars, catVars, tries, listTries, saveVars, version_file>>

NextPackage ==
    \/ SyncPackage
    \/ NextSync

(***************************************************************************)
(* serials.json while it is written (lines 84 and 141) and read back       *)
(* (lines 38-39 and 101-102). The text of the file is a sequence of        *)
(* tokens: an opening brace, one entry for each key in sorted order, a     *)
(* closing brace.                                                          *)
(***************************************************************************)
Tok(t, key, value) == [t |-> t, key |-> key, value |-> value]

\* the keys of the two files, in the order sort_keys=True writes them
KeyOrder == <<"a", "b", "highest", "lowest">>

\* the entries of d for the keys from place i of KeyOrder on
RECURSIVE DumpEntries(_, _)
DumpEntries(d, i) ==
    IF i > Len(KeyOrder) THEN <<>>
    ELSE (IF KeyOrder[i] \in DOMAIN d
          THEN <<Tok("entry", KeyOrder[i], d[KeyOrder[i]])>> ELSE <<>>)
         \o DumpEntries(d, i + 1)

\* json.dumps(serials, indent=4, sort_keys=True)
Dumps(d) == <<Tok("{", "", 0)>> \o DumpEntries(d, 1) \o <<Tok("}", "", 0)>>

\* json.loads accepts the text
IsJson(text) ==
    /\ Len(text) >= 2
    /\ text[1].t = "{"
    /\ text[Len(text)].t = "}"
    /\ \A i \in 2..(Len(text) - 1) : text[i].t = "entry"

\* json.loads(text) of a text it accepts: the last entry of a key wins
Loads(text) ==
    LET at(key) == {i \in 2..(Len(text) - 1) : text[i].key = key}
    IN  [key \in {text[i].key : i \in 2..(Len(text) - 1)} |->
            text[MaxOf(at(key))].value]

\* the dicts the two commands write: a checkpoint map or a cursor
Cursors == {[lowest |-> l, highest |-> h] : l \in 0..MaxMarker, h \in 0..MaxMarker}

SavedStates == CheckpointMaps \cup Cursors

NoFile == [exists |-> FALSE, text |-> <<>>]

\* Path.write_text opens the file with mode "w", which truncates it
Save_Open ==
    /\ savePc = "idle"
    /\ \E d \in SavedStates : saveNew' = d
    /\ savePrev' = disk
    /\ disk' = [exists |-> TRUE, text |-> <<>>]
    /\ savePc' = "writing"
    /\ UNCHANGED <<clVars, catVars, pkgVars, tries, listTries>>

\* the text reaches the file in one piece or in several
Save_Write ==
    /\ savePc = "writing"
    /\ Len(disk.text) < Len(Dumps(saveNew))
    /\ \E n \in (Len(disk.text) + 1)..Len(Dumps(saveNew)) :
          disk' = [disk EXCEPT !.text = SubSeq(Dumps(saveNew), 1, n)]
    /\ UNCHANGED <<clVars, catVars, pkgVars, tries, listTries, savePc, saveNew, savePrev>>

\* every token is written and the file is closed
Save_Close ==
    /\ savePc = "writing"
    /\ disk.text = Dumps(saveNew)
    /\ savePc' = "idle"
    /\ UNCHANGED <<clVars, catVars, pkgVars, tries, listTries, disk, saveNew, savePrev>>

\* the process dies while write_text is under way
Save_Crash ==
    /\ savePc = "writing"
    /\ savePc' = "crashed"
    /\ UNCHANGED <<clVars, catVars, pkgVars, tries, listTries, disk, saveNew, savePrev>>

\* lines 38-39 and 101-102 of the next run: json.loads(serials_path.read_text())
\* raises JSONDecodeError on a text it does not accept
Save_NextRunLoads ==
    /\ savePc = "crashed"
    /\ savePc' = IF disk.exists /\ ~IsJson(disk.text) THEN "failed" ELSE "idle"
    /\ UNCHANGED <<clVars, catVars, pkgVars, tries, listTries, disk, saveNew, savePrev>>

InitSave ==
    /\ disk = NoFile
    /\ savePc = "idle"
    /\ saveNew = EmptyRecord
    /\ savePrev = NoFile

NextSave ==
    \/ Save_Open
    \/ Save_Write
    \/ Save_Close
    \/ Save_Crash
    \/ Save_NextRunLoads

Init == InitChangelog /\ InitCatalog /\ InitPackage /\ InitSave

\* the changelog command on its directory
SpecChangelog == Init /\ [][NextChangelog]_vars

\* the changelog command against an index whose answers can fail
SpecChangelogRetry == Init /\ [][NextChangelogRetry]_vars

\* the changelog command against an index that fails and that answers with old events
SpecChangelogFaulty == Init /\ [][NextChangelogFaulty]_vars

\* the catalog command on its directory
SpecCatalog == Init /\ [][NextCatalog]_vars

\* the catalog command against an index whose listing can fail, in a process that can
\* be terminated
SpecCatalogFaulty == Init /\ [][NextCatalogFaulty]_vars

\* the sync of one package
SpecPackage == Init /\ [][NextPackage]_vars

\* serials.json written, with the process dying at any point
SpecSave == Init /\ [][NextSave]_vars

(***************************************************************************)
(* Claims about download_changelog, checked under SpecChangelog.           *)
(***************************************************************************)
RunEndedCL == clPc = "idle" /\ clOutcome # "none"

\* C2 (as claimed): a changelog run that accumulated zero events, with min_events
\* unset or 0, ends without error and without writing a batch artifact.
C2_ZeroEventsIsNoError ==
    (RunEndedCL /\ events = <<>> /\ ~Truthy(min_events))
        => (clOutcome = "ok" /\ artifacts = clStart.artifacts)

\* C3: whenever a run has fetched events, its cursor's lowest is the maximum serial
\* over all events fetched in the run (not the last one listed) and is not below the
\* lowest the run started with; a run that ends well persists exactly that cursor.
C3_LowestIsMaxSerial ==
    /\ events # <<>> =>
          /\ clSerials.lowest = MaxOf(Range(events))
          /\ clSerials.lowest >= clStart.lowest
    /\ (RunEndedCL /\ clOutcome = "ok") => cursorFile = {clSerials}

\* C3 witness: a run from a non-zero cursor that needed two fetches, listed the
\* largest serial before a smaller one, and ended well.
C3_Witness ==
    /\ RunEndedCL /\ clOutcome = "ok"
    /\ clStart.lowest > 0
    /\ fetches >= 2
    /\ events[Len(events)] # MaxOf(Range(events))
    /\ clSerials.lowest = MaxOf(Range(events))

\* C4: a run that accumulated fewer than a configured min_events fails (the
\* ClickException of line 71) and leaves the batch artifacts and the persisted
\* cursor file exactly as it found them.
C4_InsufficientDataWritesNothing ==
    (RunEndedCL /\ Truthy(min_events) /\ Len(events) < OptVal(min_events))
        => /\ clOutcome = "ClickException"
           /\ artifacts = clStart.artifacts
           /\ cursorFile = clStart.cursorFile

\* C4 witness: a failed run that had fetched events and moved its in-memory cursor,
\* in a directory that already held a cursor file and an artifact.
C4_Witness ==
    /\ RunEndedCL /\ clOutcome = "ClickException"
    /\ events # <<>>
    /\ clSerials.lowest > clStart.lowest
    /\ clStart.cursorFile # {}
    /\ clStart.artifacts # {}

\* C12 (as claimed): the cursor a run persists has lowest <= highest, highest being
\* the last serial read at the start of the run, also when the feed gains events
\* while the run fetches.
C12_LowestAtMostHighest ==
    (RunEndedCL /\ clOutcome = "ok") =>
        /\ cursorFile = {clSerials}
        /\ clSerials.lowest <= clSerials.highest

(***************************************************************************)
(* Claims about get_changelog_since, checked under SpecChangelogRetry.     *)
(***************************************************************************)
\* C15: a call of get_changelog_since is tried at most 5 times; a run still in its
\* loop has failed fewer than 5 times in a row, a run reaches its end without a
\* ProtocolError only through answers that arrived, and a run ends in ProtocolError
\* only on the 5th failure in a row, with the artifacts and the cursor file as it
\* found them.
C15_FiveTries ==
    /\ tries <= MaxTries
    /\ clPc = "loop" => tries < MaxTries
    /\ (RunEndedCL /\ clOutcome # "ProtocolError") => tries = 0
    /\ (RunEndedCL /\ clOutcome = "ProtocolError") =>
          /\ tries = MaxTries
          /\ artifacts = clStart.artifacts
          /\ cursorFile = clStart.cursorFile

\* C15 witness: a run that had fetched events and moved its cursor gave up on the
\* 5th failure of a later call, in a directory that held a cursor file and an artifact.
C15_Witness ==
    /\ RunEndedCL /\ clOutcome = "ProtocolError"
    /\ tries = MaxTries
    /\ events # <<>>
    /\ clSerials.lowest > clStart.lowest
    /\ clStart.cursorFile # {}
    /\ clStart.artifacts # {}

(***************************************************************************)
(* Claims about the fetch loop, checked under SpecChangelogFaulty.         *)
(***************************************************************************)
\* C20: a run calls get_changelog_since at most max(limit, 1) times, whatever the
\* index answers: while the loop goes on every call has added at least one event,
\* and no call is tried more than 5 times.
C20_LoopIsBounded ==
    /\ fetches <= (IF clLimit > 1 THEN clLimit ELSE 1)
    /\ clPc = "loop" => (Len(events) >= fetches /\ tries < MaxTries)

\* C20 witness: a run that made as many calls as its limit allows, two or more, and
\* was answered with a serial that did not exceed the cursor it started from.
C20_Witness ==
    /\ RunEndedCL
    /\ clLimit >= 2
    /\ fetches = clLimit
    /\ \E i \in 1..Len(events) : events[i] <= clStart.lowest

(***************************************************************************)
(* Claims about download_releases, checked under SpecCatalog.              *)
(***************************************************************************)
Result(i) == OptVal(tasks[i].result)

\* a task whose process_package returned (it did not raise)
Returns == TasksIn("done")

QueuedName(i) == packages_to_process[i][1]

QueuedSerial(i) == packages_to_process[i][2]

SameCheckpoint(name) ==
    /\ name \in DOMAIN serialsFile <=> name \in DOMAIN runStart.serialsFile
    /\ name \in DOMAIN serialsFile => serialsFile[name] = runStart.serialsFile[name]

SameFile(name) ==
    /\ name \in DOMAIN files <=> name \in DOMAIN runStart.files
    /\ name \in DOMAIN files => files[name] = runStart.files[name]

\* C1 (as claimed): when a package's fetch uses up its retries, the run still
\* processes every other package of the queue and still writes serials.json, with
\* the checkpoint of every package that synced fully.
C1_FailureIsIsolated ==
    pc = "ended" =>
        /\ outcome = "ok"
        /\ \A i \in 1..Len(tasks) : tasks[i].st \in {"done", "raised"}
        /\ \A i \in Returns :
              ~Result(i).skip =>
                  /\ QueuedName(i) \in DOMAIN serialsFile
                  /\ serialsFile[QueuedName(i)] = QueuedSerial(i)

\* the places of the listing whose serial differs from the stored checkpoint
ChangedAt ==
    {i \in 1..Len(server_packages_by_serial) :
        LET name == server_packages_by_serial[i][1]
        IN  \/ name \notin DOMAIN runStart.serialsFile
            \/ runStart.serialsFile[name] # server_packages_by_serial[i][2]}

\* place i of the listing comes before place j in the queue's order
Precedes(i, j) ==
    \/ server_packages_by_serial[i][2] < server_packages_by_serial[j][2]
    \/ /\ server_packages_by_serial[i][2] = server_packages_by_serial[j][2]
       /\ i < j

\* C5: the queue of a run holds the (lowered name, serial) pairs of the listing
\* whose serial differs from the stored checkpoint of the name (or that have none),
\* in ascending order of the serial with equal serials in the listing's order, cut
\* to the first `limit` of them.
C5_WorkQueue ==
    pc # "idle" =>
        /\ Len(packages_to_process) =
              IF runStart.limit < Cardinality(ChangedAt) THEN runStart.limit
              ELSE Cardinality(ChangedAt)
        /\ \A k \in 1..Len(packages_to_process) :
              /\ packages_to_process[k][1] \in Names
              /\ \E i \in ChangedAt :
                    /\ packages_to_process[k] = server_packages_by_serial[i]
                    /\ Cardinality({j \in ChangedAt : Precedes(j, i)}) = k - 1

\* C5 witness: two listed packages with equal serials both need a refresh (one has
\* an older checkpoint, one has none), and a limit of 1 keeps the one listed first.
C5_Witness ==
    /\ pc = "pool"
    /\ Len(server_packages_by_serial) = 2
    /\ Cardinality(ChangedAt) = 2
    /\ server_packages_by_serial[1][2] = server_packages_by_serial[2][2]
    /\ server_packages_by_serial[1][1] \in DOMAIN runStart.serialsFile
    /\ runStart.limit = 1
    /\ packages_to_process = <<server_packages_by_serial[1]>>

\* C6: a package whose sync met a version page that answers 404 (skip) has, for the
\* rest of the run and after it, the checkpoint in serials.json and the version_file
\* it had when the run started (none, if it had none).
C6_SkipLeavesPackageAsItWas ==
    \A i \in Returns :
        Result(i).skip => SameCheckpoint(QueuedName(i)) /\ SameFile(QueuedName(i))

\* C6 witness: a run that wrote serials.json, advanced another package, and skipped
\* a package that had a version_file and an older checkpoint, after it had fetched
\* one release of that package and met the 404 on the next.
C6_Witness ==
    /\ pc = "ended" /\ outcome = "ok"
    /\ serialsFile # runStart.serialsFile
    /\ \E i \in Returns :
          /\ Result(i).skip
          /\ pages[QueuedName(i)] = BrandNewRelease
          /\ QueuedName(i) \in DOMAIN runStart.files
          /\ QueuedName(i) \in DOMAIN runStart.serialsFile

\* C7: a package whose own page answers 404 gets a result with not_found true,
\* modified false and skip false, no version_file is written for it, and once the
\* run writes serials.json its checkpoint is the serial of the listing.
C7_NotFoundAdvances ==
    \A i \in Returns :
        LET name == QueuedName(i)
        IN  (name \in DOMAIN pages /\ ~pages[name].found) =>
               /\ Result(i).stats.not_found
               /\ ~Result(i).stats.modified
               /\ ~Result(i).skip
               /\ name \notin written
               /\ SameFile(name)
               /\ (pc = "ended" /\ outcome = "ok") =>
                     /\ name \in DOMAIN serialsFile
                     /\ serialsFile[name] = QueuedSerial(i)

\* C7 witness: a run that ended well with a package not found whose checkpoint moved
\* and whose version_file of an earlier run is still there.
C7_Witness ==
    /\ pc = "ended" /\ outcome = "ok"
    /\ \E i \in Returns :
          /\ Result(i).stats.not_found
          /\ QueuedName(i) \in DOMAIN files
          /\ QueuedName(i) \in DOMAIN runStart.serialsFile
          /\ serialsFile[QueuedName(i)] # runStart.serialsFile[QueuedName(i)]

Sync == OptVal(lastSync)

\* the sync of a package wrote its version_file
Wrote == lastSync # {} /\ Sync.result.write # {}

Before == IF Sync.before = {} THEN EmptyRecord ELSE OptVal(Sync.before)

After == OptVal(version_file)

\* the releases dict of the last sync, in the order fetched
Fetched == FetchReleases(Sync.detail, Sync.failAt, 1, <<>>, <<>>).releases

\* C9: a sync never removes a version from a package's stored record: the record
\* written holds every version the record before held, with its old value when the
\* sync did not fetch it and with the value just fetched (its revision) when it did;
\* a sync that writes nothing leaves the file as it was.
C9_MergeKeepsKeys ==
    /\ (lastSync # {} /\ ~Wrote) => version_file = Sync.before
    /\ Wrote =>
          /\ DOMAIN Before \subseteq DOMAIN After
          /\ DOMAIN After = DOMAIN Before \cup Keys(Fetched)
          /\ \A v \in DOMAIN Before \ Keys(Fetched) : After[v] = Before[v]
          /\ \A v \in Keys(Fetched) : After[v].rev = Sync.detail.rev

\* C9 witness: the record before held a version the index no longer lists and a
\* version fetched again with another revision.
C9_Witness ==
    /\ Wrote
    /\ DOMAIN Before \ Keys(Fetched) # {}
    /\ \E v \in DOMAIN Before \cap Keys(Fetched) : Before[v].rev # After[v].rev

\* the versions of the record written that still have a description
Described == {v \in DOMAIN After : After[v].description}

\* C10 (as claimed): in a merged record with more than one version exactly one
\* version has a description, the last one fetched in this sync.
C10_OneDescription ==
    (Wrote /\ Cardinality(DOMAIN After) > 1) =>
        /\ Fetched # <<>>
        /\ Described = {Fetched[Len(Fetched)][1]}

\* C10 (amended): of the versions fetched in this sync, the last one in upstream
\* order keeps its description in the merged record and no other does; a version
\* the sync did not fetch keeps what the record before held for it.
C10_OneDescriptionAmongFetched ==
    Wrote =>
        /\ \A i \in 1..Len(Fetched) :
              After[Fetched[i][1]].description <=> (i = Len(Fetched))
        /\ \A v \in DOMAIN Before \ Keys(Fetched) : After[v] = Before[v]

\* C10 witness: two versions fetched, and a third kept from the record before with
\* the description it had.
C10_Witness ==
    /\ Wrote
    /\ Len(Fetched) > 1
    /\ \E v \in DOMAIN Before \ Keys(Fetched) : After[v].description
    /\ Cardinality(Described) > 1

(***************************************************************************)
(* Claims about the write of serials.json, checked under SpecSave.         *)
(***************************************************************************)
\* C14 (as claimed): when the process dies during a save, the file on disk is the
\* complete file of before or the complete new one, and the next run can read it.
C14_SaveIsAtomic ==
    /\ savePc = "crashed" =>
          \/ disk = savePrev
          \/ disk.exists /\ IsJson(disk.text) /\ Loads(disk.text) = saveNew
    /\ savePc # "failed"

(***************************************************************************)
(* More claims about process_package, checked under SpecPackage.           *)
(***************************************************************************)
\* the versions whose page the last sync called get_json for, in order
Requested == FetchReleases(Sync.detail, Sync.failAt, 1, <<>>, <<>>).requested

\* C11: no sync calls get_json for the page of a version "..", and the version_file
\* never has a key "..".
C11_NoDotDot ==
    /\ (lastSync # {} /\ Sync.detail.found /\ Sync.failAt # 1) => ".." \notin Range(Requested)
    /\ version_file # {} => ".." \notin DOMAIN After

\* C11 witness: the package lists ".." before another version; the sync fetched that
\* version and wrote the file.
C11_Witness ==
    /\ Wrote
    /\ \E i, j \in 1..Len(Sync.detail.releases) :
          /\ i < j
          /\ Sync.detail.releases[i] = ".."
          /\ Sync.detail.releases[j] \in Range(Requested)
          /\ Sync.detail.releases[j] \in DOMAIN After

\* C19 (as claimed): the stats of a sync of a package that is found say modified
\* exactly when the package had a version_file before the sync, and new exactly when
\* it had none; so a sync that is skipped while a version_file exists is not new.
C19_StatsTellPriorRecord ==
    (lastSync # {} /\ ~Sync.result.raised /\ Sync.detail.found) =>
        /\ Sync.result.stats.modified <=> (Sync.before # {})
        /\ Sync.result.stats.new <=> (Sync.before = {})

(***************************************************************************)
(* More claims about download_releases, checked under SpecCatalog.         *)
(***************************************************************************)
\* C13: no step removes a name from serials.json, and a step gives a name a new
\* serial only when a task of the run returned for that name without skip, with
\* that serial.
C13_CheckpointsOnlyGrow ==
    [][/\ DOMAIN serialsFile \subseteq DOMAIN serialsFile'
       /\ \A n \in DOMAIN serialsFile' :
             (n \notin DOMAIN serialsFile \/ serialsFile'[n] # serialsFile[n]) =>
                 \E i \in Returns :
                    /\ QueuedName(i) = n
                    /\ ~Result(i).skip
                    /\ serialsFile'[n] = QueuedSerial(i)]_vars

\* C13 witness: a run wrote serials.json: one name took a new serial, while a name
\* whose sync was skipped kept the older serial it had.
C13_Witness ==
    /\ pc = "ended" /\ outcome = "ok"
    /\ \E i, j \in Returns :
          /\ Result(i).skip
          /\ QueuedName(i) \in DOMAIN runStart.serialsFile
          /\ serialsFile[QueuedName(i)] = runStart.serialsFile[QueuedName(i)]
          /\ serialsFile[QueuedName(i)] # QueuedSerial(i)
          /\ ~Result(j).skip
          /\ QueuedName(j) \in DOMAIN runStart.serialsFile
          /\ serialsFile[QueuedName(j)] # runStart.serialsFile[QueuedName(j)]

\* the name's checkpoint in memory is not the one the run loaded
MovedInMemory(name) ==
    name \notin DOMAIN runStart.serialsFile \/ serials[name] # runStart.serialsFile[name]

\* C17: while a run is under way the serials dict differs from the one loaded only
\* by the results the main thread has taken from the iterator (each a task that
\* returned, not skipped); serials.json differs from the one loaded only once every
\* result is taken, and a run that ended well has taken every result and written
\* the dict it holds.
C17_MainThreadOwnsCheckpoints ==
    pc # "idle" =>
        /\ \A name \in DOMAIN serials :
              MovedInMemory(name) =>
                  \E i \in 1..consumed :
                     /\ tasks[i].st = "done"
                     /\ QueuedName(i) = name
                     /\ ~Result(i).skip
                     /\ serials[name] = QueuedSerial(i)
        /\ serialsFile # runStart.serialsFile => (pc = "ended" /\ consumed = Len(tasks))
        /\ (pc = "ended" /\ outcome = "ok") =>
              (consumed = Len(tasks) /\ serialsFile = serials)

\* C17 witness: the second task of the queue returned before the first one; the
\* first result is taken and its checkpoint set, the second waits, nothing is
\* written yet.
C17_Witness ==
    /\ pc = "pool"
    /\ Len(tasks) = 2
    /\ consumed = 1
    /\ tasks[2].st = "done" /\ ~Result(2).skip
    /\ MovedInMemory(QueuedName(1))
    /\ ~MovedInMemory(QueuedName(2))
    /\ serialsFile = runStart.serialsFile

(***************************************************************************)
(* Claims about download_releases, checked under SpecCatalogFaulty.        *)
(***************************************************************************)
\* C16 (as claimed): list_packages_with_serial is tried up to 5 times, so a run
\* fails on the listing only after 5 failures.
C16_ListingIsRetried ==
    (pc = "ended" /\ outcome = "ProtocolError") => listTries = MaxTries

\* the name's checkpoint on disk is not the one the run loaded
MovedOnDisk(name) ==
    name \notin DOMAIN runStart.serialsFile \/ serialsFile[name] # runStart.serialsFile[name]

\* C18: whenever serials.json holds for a name a checkpoint the run put there, a
\* task of the run returned for that name, not skipped, and by then had written the
\* name's version_file or found the package absent; a file the run wrote is on
\* disk; and a run that was terminated left serials.json as it was, so that every
\* package it had synced is still a changed package for the next run.
C18_CheckpointNeverAhead ==
    pc # "idle" =>
        /\ \A name \in DOMAIN serialsFile :
              MovedOnDisk(name) =>
                  \E i \in Returns :
                     /\ QueuedName(i) = name
                     /\ serialsFile[name] = QueuedSerial(i)
                     /\ ~Result(i).skip
                     /\ (name \in written \/ Result(i).stats.not_found)
        /\ written \subseteq DOMAIN files
        /\ (pc = "ended" /\ outcome = "killed") =>
              /\ serialsFile = runStart.serialsFile
              /\ \A i \in Returns :
                    packages_to_process[i] \in
                        Range(ChangedPackages(SortedBySerial(server_packages_by_serial),
                                              serialsFile))

\* C18 witness: a run was terminated after a task had written its file and the main
\* thread had set the checkpoint in memory: the file is there, the checkpoint is not.
C18_Witness ==
    /\ pc = "ended" /\ outcome = "killed"
    /\ consumed >= 1
    /\ serials # serialsFile
    /\ \E i \in 1..consumed :
          /\ QueuedName(i) \in written
          /\ QueuedName(i) \notin DOMAIN serialsFile

====
